---------------------------- MODULE Spec2Model ----------------------------
(***************************************************************************)
(* The DynamoDB-Streams-to-PostgreSQL replicator of space-finder-cdk       *)
(* (src/src/services/sqlReplicator.ts) as a state machine: the process-    *)
(* wide pool singleton, getPool, the handler's record loop with its two    *)
(* SQL statements, and the stream trigger that redelivers a batch whose    *)
(* invocation threw.                                                        *)
(*                                                                         *)
(* One step of the model is one stretch of the handler between two awaits: *)
(* the awaited GetSecretValue call and each awaited db.query are the only  *)
(* suspension points of the code.                                          *)
(***************************************************************************)
EXTENDS Integers, Sequences, FiniteSets, TLC

(***************************************************************************)
(* Bounds of the model.                                                    *)
(***************************************************************************)
\* longest batch (event.Records) the stream delivers
MaxBatch == 3
\* largest reading of the wall clock (new Date())
MaxClock == 1
\* how many times the stream redelivers a batch whose invocation threw
MaxRedeliver == 1
\* handler invocations that may be in flight in one process
NumInv == 2

Invs == 1 .. NumInv
\* the Lambda runtime runs one invocation at a time per process
SeqInvs == {1}

(***************************************************************************)
(* Values.                                                                 *)
(***************************************************************************)
\* JavaScript undefined (an attribute the image does not carry)
Undefined == "<undefined>"
\* JavaScript null / SQL NULL
Null == "<null>"

\* A DynamoDB attribute value of type S
S(v) == [S |-> v]

\* A space as the stream carries it, in DynamoDB's AttributeValue form
Image(id, name) == [id |-> S(id), name |-> S(name), location |-> S("L")]

\* The same with the optional photoUrl attribute
ImageWithPhoto(id, name, photoUrl) ==
    [id |-> S(id), name |-> S(name), location |-> S("L"), photoUrl |-> S(photoUrl)]

\* The stream records the handler is given: both ids, a change of name, an
\* image with and one without photoUrl, both removals, and a record of each
\* branch that lacks its image
StreamRecords ==
    { [eventName |-> "INSERT", dynamodb |-> [NewImage |-> Image("1", "A")]],
      [eventName |-> "MODIFY", dynamodb |-> [NewImage |-> ImageWithPhoto("1", "Z", "p")]],
      [eventName |-> "INSERT", dynamodb |-> [NewImage |-> Image("2", "Z")]],
      [eventName |-> "REMOVE", dynamodb |-> [OldImage |-> Image("1", "A")]],
      [eventName |-> "REMOVE", dynamodb |-> [OldImage |-> Image("2", "A")]],
      [eventName |-> "MODIFY", dynamodb |-> [Keys |-> [id |-> S("1")]]],
      [eventName |-> "REMOVE", dynamodb |-> [Keys |-> [id |-> S("1")]]] }

RECURSIVE SeqsUpTo(_, _)
SeqsUpTo(X, n) ==
    IF n = 0 THEN { <<>> }
    ELSE LET shorter == SeqsUpTo(X, n - 1)
         IN  shorter \cup { Append(s, x) : s \in { t \in shorter : Len(t) = n - 1 }, x \in X }

\* DynamoDBStreamEvent.Records: the stream delivers at least one record
Batches == SeqsUpTo(StreamRecords, MaxBatch) \ { <<>> }

VARIABLES
    pool,       \* the module-level singleton: 0 is null, n > 0 the n-th Pool built
    fetches,    \* GetSecretValue commands sent so far in this process
    sink,       \* app.spaces: a function from the ids present to their rows
    clock,      \* the last reading of the wall clock by new Date()
    built,      \* Pools constructed so far in this process
    inv,        \* per handler invocation: where it is and what it holds
    log         \* the last two statements the sink executed (history)

vars == <<pool, fetches, sink, clock, built, inv, log>>


(***************************************************************************)
(* Pure parts of the handler.                                              *)
(***************************************************************************)
\* unmarshall: { a: { S: v } } becomes { a: v }
unmarshall(image) == [a \in DOMAIN image |-> image[a].S]

\* newImage.a: undefined when the image has no attribute a
Attr(n, a) == IF a \in DOMAIN n THEN n[a] ELSE Undefined

\* JavaScript truthiness of a string-or-undefined value
Truthy(v) == v \notin {Undefined, Null, ""}

\* a || b
Or(a, b) == IF Truthy(a) THEN a ELSE b

\* pg sends an undefined parameter as NULL
PgParam(v) == IF v = Undefined THEN Null ELSE v

\* The parameter array of the upsert statement, $1..$6
UpsertParams(newImage, now) ==
    [ id         |-> PgParam(Attr(newImage, "id")),
      name       |-> PgParam(Attr(newImage, "name")),
      location   |-> PgParam(Attr(newImage, "location")),
      capacity   |-> PgParam(Or(Attr(newImage, "photoUrl"), Null)),
      created_at |-> now,
      updated_at |-> now ]

\* Mutant of SqlUpsert: ON CONFLICT (id) DO NOTHING
SqlUpsertDoNothing(rows, p) ==
    [ rows |-> [ k \in DOMAIN rows \cup {p.id} |->
                   IF k \in DOMAIN rows THEN rows[k] ELSE p ],
      err  |-> FALSE ]

\* Mutant of SqlUpsert: the conflict branch also sets created_at
SqlUpsertOverwritesCreatedAt(rows, p) ==
    [ rows |-> [ k \in DOMAIN rows \cup {p.id} |-> IF k = p.id THEN p ELSE rows[k] ],
      err  |-> FALSE ]

\* Mutant of SqlUpsert: the conflict branch leaves updated_at out
SqlUpsertKeepsUpdatedAt(rows, p) ==
    [ rows |-> [ k \in DOMAIN rows \cup {p.id} |->
                   IF k # p.id THEN rows[k]
                   ELSE IF k \in DOMAIN rows
                        THEN [ rows[k] EXCEPT !.name = p.name,
                                              !.location = p.location,
                                              !.capacity = p.capacity ]
                        ELSE p ],
      err  |-> FALSE ]

\* Mutant of SqlUpsert: the conflict branch leaves capacity out
SqlUpsertKeepsCapacity(rows, p) ==
    [ rows |-> [ k \in DOMAIN rows \cup {p.id} |->
                   IF k # p.id THEN rows[k]
                   ELSE IF k \in DOMAIN rows
                        THEN [ rows[k] EXCEPT !.name = p.name,
                                              !.location = p.location,
                                              !.updated_at = p.updated_at ]
                        ELSE p ],
      err  |-> FALSE ]

\* INSERT INTO app.spaces ... ON CONFLICT (id) DO UPDATE SET name, location,
\* capacity, updated_at = EXCLUDED.*: the table after the statement, and
\* whether the statement raised
SqlUpsert(rows, p) ==
    [ rows |-> [ k \in DOMAIN rows \cup {p.id} |->
                   IF k # p.id THEN rows[k]
                   ELSE IF k \in DOMAIN rows
                        THEN [ rows[k] EXCEPT !.name = p.name,
                                              !.location = p.location,
                                              !.capacity = p.capacity,
                                              !.updated_at = p.updated_at ]
                        ELSE p ],
      err  |-> FALSE ]

\* Mutant of SqlDelete: a delete that matches no row raises
SqlDeleteStrict(rows, id) ==
    [ rows |-> [ k \in DOMAIN rows \ {id} |-> rows[k] ],
      err  |-> id \notin DOMAIN rows ]

\* DELETE FROM app.spaces WHERE id = $1: deleting no row is not an error
SqlDelete(rows, id) ==
    [ rows |-> [ k \in DOMAIN rows \ {id} |-> rows[k] ],
      err  |-> FALSE ]

\* record.eventName === "INSERT" || record.eventName === "MODIFY"
IsUpsert(record) == record.eventName \in {"INSERT", "MODIFY"}

\* record.eventName === "REMOVE"
IsRemove(record) == record.eventName = "REMOVE"

\* record.dynamodb?.NewImage / record.dynamodb?.OldImage
HasNewImage(record) == "NewImage" \in DOMAIN record.dynamodb
HasOldImage(record) == "OldImage" \in DOMAIN record.dynamodb

\* The two `continue` cases of the loop
Malformed(record) ==
    \/ IsUpsert(record) /\ ~HasNewImage(record)
    \/ IsRemove(record) /\ ~HasOldImage(record)

\* The handler resolves to void: it never names a failed record to the trigger
BatchItemFailures(i) == {}

(***************************************************************************)
(* State.                                                                  *)
(***************************************************************************)
\* the row of key id in a table: the empty function when there is none
Row(rows, id) == [k \in DOMAIN rows \cap {id} |-> rows[k]]

EmptyTable == [k \in {} |-> 0]

\* Tables the process can find when it starts: a fresh table, or one that an
\* earlier process has replicated a space into
InitSinks ==
    { EmptyTable,
      [k \in {"2"} |-> [ id |-> "2", name |-> "A", location |-> "L",
                         capacity |-> Null, created_at |-> 0, updated_at |-> 0 ]] }

Idle ==
    [ pc       |-> "idle",      \* idle, fetching, loop, done, failed
      Records  |-> <<>>,        \* event.Records
      idx      |-> 1,           \* position of the for-of loop
      db       |-> 0,           \* const db = await getPool()
      err      |-> "",          \* what the handler threw
      attempts |-> 0,           \* deliveries of this batch so far
      faults   |-> 0,           \* sink statements of this batch that failed (history)
      failedAt |-> 0,           \* record whose statement failed in this attempt (history)
      applied  |-> 0,           \* statements executed in this attempt (history)
      fetched  |-> 0,           \* GetSecretValue commands sent in this attempt (history)
      start    |-> EmptyTable,  \* the sink when this attempt began (history)
      sink0    |-> EmptyTable,  \* the sink when the batch was first delivered (history)
      once     |-> EmptyTable ] \* sink0 after the statements of this attempt alone (history)

Init ==
    /\ pool = 0
    /\ fetches = 0
    /\ built = 0
    /\ sink \in InitSinks
    /\ clock = 0
    /\ inv = [i \in Invs |-> Idle]
    /\ log = <<>>

\* the last two entries of the statement log
Last2(s) == IF Len(s) <= 2 THEN s ELSE SubSeq(s, Len(s) - 1, Len(s))


(***************************************************************************)
(* getPool.                                                                *)
(***************************************************************************)
\* getPool up to its first await, entered by invocation i whose state is
\* r: the cached pool is returned at once; otherwise the GetSecretValue
\* command is sent and the caller is suspended on it
getPool(i, r) ==
    IF pool # 0
    THEN /\ inv' = [inv EXCEPT ![i] = [r EXCEPT !.pc = "loop", !.db = pool]]
         /\ UNCHANGED fetches
    ELSE /\ inv' = [inv EXCEPT ![i] = [r EXCEPT !.pc = "fetching", !.fetched = @ + 1]]
         /\ fetches' = fetches + 1

\* The secrets fetch resolves: getPool builds a Pool, assigns the singleton
\* (without looking at it again) and returns it
getPoolResolved(i) ==
    /\ inv[i].pc = "fetching"
    /\ built' = built + 1
    /\ pool' = built + 1
    /\ inv' = [inv EXCEPT ![i].pc = "loop", ![i].db = built + 1]
    /\ UNCHANGED <<fetches, sink, clock, log>>

\* Mutant of Catch: the catch block logs the error and does not rethrow
\* it, so the handler resolves
CatchSwallows(r, error) == [r EXCEPT !.pc = "done", !.err = error]

\* The handler's catch block: log the error and rethrow it
Catch(r, error) == [r EXCEPT !.pc = "failed", !.err = error]

\* Mutant of getPoolRejected: getPool sends the command again instead of
\* throwing
getPoolRejectedRetries(i) ==
    /\ inv[i].pc = "fetching"
    /\ inv[i].fetched <= MaxRedeliver
    /\ inv' = [inv EXCEPT ![i].fetched = @ + 1]
    /\ fetches' = fetches + 1
    /\ UNCHANGED <<pool, built, sink, clock, log>>

\* The secrets fetch rejects: getPool throws before it assigns the pool,
\* and the handler's catch block rethrows
getPoolRejected(i) ==
    /\ inv[i].pc = "fetching"
    /\ inv' = [inv EXCEPT ![i] = Catch(inv[i], "CredentialResolutionError")]
    /\ UNCHANGED <<pool, fetches, built, sink, clock, log>>

(***************************************************************************)
(* The handler.                                                            *)
(***************************************************************************)
\* The trigger invokes the handler with a new batch, one of `batches`
Invoke(i, batches) ==
    /\ inv[i].pc = "idle"
    /\ \E batch \in batches :
          getPool(i, [Idle EXCEPT !.Records = batch, !.attempts = 1,
                                  !.start = sink, !.sink0 = sink, !.once = sink])
    /\ UNCHANGED <<pool, built, sink, clock, log>>

\* The record the loop of invocation i is at
Current(i) == inv[i].Records[inv[i].idx]

InLoop(i) == inv[i].pc = "loop" /\ inv[i].idx <= Len(inv[i].Records)

\* One more entry in the log of executed statements
Logged(record, id, after, now) ==
    Last2(Append(log, [ record |-> record, before |-> Row(sink, id),
                        after |-> Row(after, id), at |-> now ]))

\* Mutant of Skip: a record without its image throws
SkipThrows(i) ==
    /\ InLoop(i)
    /\ Malformed(Current(i))
    /\ inv' = [inv EXCEPT ![i] =
                  Catch([inv[i] EXCEPT !.failedAt = inv[i].idx], "MalformedEvent")]
    /\ UNCHANGED <<pool, fetches, built, sink, clock, log>>

\* An INSERT/MODIFY record without NewImage, or a REMOVE record without
\* OldImage: warn and continue
Skip(i) ==
    /\ InLoop(i)
    /\ Malformed(Current(i))
    /\ inv' = [inv EXCEPT ![i].idx = @ + 1]
    /\ UNCHANGED <<pool, fetches, built, sink, clock, log>>

\* An INSERT/MODIFY record: the awaited upsert statement executes, stamped
\* with new Date(), which reads a clock that never runs backwards
Upsert(i) ==
    /\ InLoop(i)
    /\ IsUpsert(Current(i)) /\ HasNewImage(Current(i))
    /\ \E now \in clock .. MaxClock :
          LET newImage == unmarshall(Current(i).dynamodb.NewImage)
              p == UpsertParams(newImage, now)
              r == SqlUpsert(sink, p)
          IN  /\ clock' = now
              /\ IF r.err
                 THEN /\ inv' = [inv EXCEPT ![i] =
                                    Catch([inv[i] EXCEPT !.failedAt = inv[i].idx],
                                          "StatementError")]
                      /\ UNCHANGED <<sink, log>>
                 ELSE /\ sink' = r.rows
                      /\ inv' = [inv EXCEPT ![i].idx = @ + 1, ![i].applied = @ + 1,
                                            ![i].once = SqlUpsert(@, p).rows]
                      /\ log' = Logged(Current(i), p.id, r.rows, now)
    /\ UNCHANGED <<pool, fetches, built>>

\* A REMOVE record: the awaited delete statement executes
Delete(i) ==
    /\ InLoop(i)
    /\ IsRemove(Current(i)) /\ HasOldImage(Current(i))
    /\ LET oldImage == unmarshall(Current(i).dynamodb.OldImage)
           r == SqlDelete(sink, oldImage.id)
       IN  IF r.err
           THEN /\ inv' = [inv EXCEPT ![i] =
                              Catch([inv[i] EXCEPT !.failedAt = inv[i].idx], "StatementError")]
                /\ UNCHANGED <<sink, log>>
           ELSE /\ sink' = r.rows
                /\ inv' = [inv EXCEPT ![i].idx = @ + 1, ![i].applied = @ + 1,
                                      ![i].once = SqlDelete(@, oldImage.id).rows]
                /\ log' = Logged(Current(i), oldImage.id, r.rows, clock)
    /\ UNCHANGED <<pool, fetches, built, clock>>

\* Mutant of QueryFails: the catch block does not rethrow, and the loop
\* goes on with the next record
QueryFailsSwallowed(i) ==
    /\ InLoop(i)
    /\ ~Malformed(Current(i))
    /\ inv' = [inv EXCEPT ![i].faults = @ + 1, ![i].idx = @ + 1]
    /\ UNCHANGED <<pool, fetches, built, sink, clock, log>>

\* The awaited statement rejects (connection reset, timeout): nothing is
\* written, the catch block rethrows and the loop is left
QueryFails(i) ==
    /\ InLoop(i)
    /\ ~Malformed(Current(i))
    /\ inv' = [inv EXCEPT ![i] =
                  Catch([inv[i] EXCEPT !.failedAt = inv[i].idx, !.faults = @ + 1],
                        "TransientSinkError")]
    /\ UNCHANGED <<pool, fetches, built, sink, clock, log>>

\* The loop is over: "All records processed successfully", resolve to void
Complete(i) ==
    /\ inv[i].pc = "loop"
    /\ inv[i].idx > Len(inv[i].Records)
    /\ inv' = [inv EXCEPT ![i].pc = "done"]
    /\ UNCHANGED <<pool, fetches, built, sink, clock, log>>

(***************************************************************************)
(* The environment: the stream trigger.                                    *)
(***************************************************************************)
\* The invocation threw ("Trigger Lambda retry"): the trigger invokes the
\* handler again with the same batch
Redeliver(i) ==
    /\ inv[i].pc = "failed"
    /\ inv[i].attempts <= MaxRedeliver
    /\ getPool(i, [inv[i] EXCEPT !.idx = 1, !.db = 0, !.err = "",
                                 !.attempts = @ + 1, !.failedAt = 0, !.applied = 0,
                                 !.fetched = 0,
                                 !.start = sink, !.once = inv[i].sink0])
    /\ UNCHANGED <<pool, built, sink, clock, log>>

\* What an invocation does once it has been started
Run(i) ==
    \/ getPoolResolved(i)
    \/ getPoolRejected(i)
    \/ Skip(i)
    \/ Upsert(i)
    \/ Delete(i)
    \/ QueryFails(i)
    \/ Complete(i)
    \/ Redeliver(i)

\* One process as the Lambda runtime drives it: one invocation at a time
Next ==
    \/ \E i \in SeqInvs : Invoke(i, Batches)
    \/ \E i \in SeqInvs : Run(i)

Spec == Init /\ [][Next]_vars

\* Batches of the invocations that overlap: what they replicate does not
\* matter to getPool
RaceBatches == { b \in Batches : Len(b) = 1 }

\* One process whose invocations interleave at their awaits
NextRace ==
    \/ \E i \in Invs : Invoke(i, RaceBatches)
    \/ \E i \in Invs : Run(i)

SpecRace == Init /\ [][NextRace]_vars

(***************************************************************************)
(* The stream trigger as it is deployed.                                   *)
(***************************************************************************)
\* batchSize of the DynamoEventSource
BatchSize == 1
\* retryAttempts of the DynamoEventSource
RetryAttempts == 1

\* The batches the deployed trigger hands to the handler
DeployedBatches == { b \in Batches : Len(b) <= BatchSize }

\* The invocation threw and retries are left: the trigger invokes the
\* handler again with the same batch
RedeliverDeployed(i) ==
    /\ inv[i].attempts <= RetryAttempts
    /\ Redeliver(i)

\* The invocation threw and the retries are used up: the trigger, which has
\* no on-failure destination, discards the batch and moves on in the stream
Discard(i) ==
    /\ inv[i].pc = "failed"
    /\ inv[i].attempts > RetryAttempts
    /\ inv' = [inv EXCEPT ![i].pc = "discarded"]
    /\ UNCHANGED <<pool, fetches, built, sink, clock, log>>

\* What an invocation does under the deployed trigger
RunDeployed(i) ==
    \/ getPoolResolved(i)
    \/ getPoolRejected(i)
    \/ Skip(i)
    \/ Upsert(i)
    \/ Delete(i)
    \/ QueryFails(i)
    \/ Complete(i)
    \/ RedeliverDeployed(i)
    \/ Discard(i)

NextDeployed ==
    \/ \E i \in SeqInvs : Invoke(i, DeployedBatches)
    \/ \E i \in SeqInvs : RunDeployed(i)

SpecDeployed == Init /\ [][NextDeployed]_vars


(***************************************************************************)
(* What the claims speak of.                                               *)
(***************************************************************************)
\* The replicated columns of a table, without the two timestamps
Content(rows) ==
    [ k \in DOMAIN rows |-> [ name |-> rows[k].name, location |-> rows[k].location,
                              capacity |-> rows[k].capacity ] ]

\* One event applied to the replicated columns: upsert by newImage.id,
\* delete by oldImage.id, nothing for a record without its image
RefApply(c, record) ==
    IF IsUpsert(record) /\ HasNewImage(record)
    THEN LET p == UpsertParams(unmarshall(record.dynamodb.NewImage), 0)
         IN  [ k \in DOMAIN c \cup {p.id} |->
                 IF k = p.id
                 THEN [name |-> p.name, location |-> p.location, capacity |-> p.capacity]
                 ELSE c[k] ]
    ELSE IF IsRemove(record) /\ HasOldImage(record)
    THEN LET id == unmarshall(record.dynamodb.OldImage).id
         IN  [ k \in DOMAIN c \ {id} |-> c[k] ]
    ELSE c

\* The events of a batch applied one by one in delivered order
RECURSIVE RefApplyAll(_, _)
RefApplyAll(c, records) ==
    IF records = <<>> THEN c
    ELSE RefApplyAll(RefApply(c, Head(records)), Tail(records))

Insert1A == [eventName |-> "INSERT", dynamodb |-> [NewImage |-> Image("1", "A")]]
Update1Z == [eventName |-> "MODIFY", dynamodb |-> [NewImage |-> ImageWithPhoto("1", "Z", "p")]]
Remove2 == [eventName |-> "REMOVE", dynamodb |-> [OldImage |-> Image("2", "A")]]

\* The entries of the statement log
LogEntries == { log[k] : k \in 1 .. Len(log) }

\* The log holds two statements in succession for one and the same record
SameRecordTwice == Len(log) = 2 /\ log[1].record = log[2].record

(***************************************************************************)
(* C1                                                                      *)
(***************************************************************************)
\* C1: when the handler has gone through a batch without an error, the sink
\* holds, row for row and in id, name, location and capacity, what applying
\* the batch's events one by one, in delivered order, to the sink as the
\* invocation found it gives (upsert by newImage.id, delete by oldImage.id;
\* the timestamps are those of the statements themselves); in particular
\* [Insert(1), Remove(2), Update(1, name Z)] ends with row 1 named Z and row
\* 2 absent, and of two upserts of one id the later one's name stays
C1_InOrder ==
    \A i \in Invs :
        inv[i].pc = "done" =>
            /\ Content(sink) = RefApplyAll(Content(inv[i].start), inv[i].Records)
            /\ inv[i].Records = <<Insert1A, Remove2, Update1Z>> =>
                  /\ "1" \in DOMAIN sink /\ sink["1"].name = "Z"
                  /\ "2" \notin DOMAIN sink
            /\ inv[i].Records = <<Insert1A, Update1Z>> => sink["1"].name = "Z"
            /\ inv[i].Records = <<Update1Z, Insert1A>> => sink["1"].name = "A"

\* The mixed batch has been processed on a table that held row 2
C1_Witness ==
    \E i \in Invs :
        /\ inv[i].pc = "done"
        /\ inv[i].Records = <<Insert1A, Remove2, Update1Z>>
        /\ "2" \in DOMAIN inv[i].start
        /\ "1" \in DOMAIN sink /\ sink["1"].name = "Z"
        /\ "2" \notin DOMAIN sink

(***************************************************************************)
(* C2                                                                      *)
(***************************************************************************)
\* C2 as stated: the row an upsert leaves when it is applied a second time
\* in succession is identical, in all its column values, to the row the
\* first application left
C2_Original ==
    (SameRecordTwice /\ IsUpsert(log[2].record)) => log[2].after = log[1].after

\* C2 as amended: the second application leaves id, name, location, capacity
\* and created_at as the first left them; updated_at is refreshed to the
\* time of the second application
C2_IdempotentUpsert ==
    (SameRecordTwice /\ IsUpsert(log[2].record)) =>
        LET id == unmarshall(log[2].record.dynamodb.NewImage).id
        IN  /\ DOMAIN log[2].after = {id}
            /\ DOMAIN log[1].after = {id}
            /\ log[2].after[id] = [log[1].after[id] EXCEPT !.updated_at = log[2].at]

\* The same upsert has run twice in succession, the second time later
C2_Witness ==
    /\ SameRecordTwice
    /\ IsUpsert(log[2].record)
    /\ log[2].at > log[1].at
    /\ log[1].before # log[1].after

(***************************************************************************)
(* C3                                                                      *)
(***************************************************************************)
\* C3: after a Remove the row keyed by oldImage.id is absent, whether or not
\* it was there before, and a Remove never fails because its key is absent:
\* an invocation that fails at a Remove record fails by an error of the sink
C3_IdempotentDelete ==
    /\ \A e \in LogEntries : IsRemove(e.record) => e.after = EmptyTable
    /\ \A i \in Invs :
          (inv[i].pc = "failed" /\ inv[i].failedAt > 0
              /\ IsRemove(inv[i].Records[inv[i].failedAt]))
          => inv[i].err = "TransientSinkError"

\* The same Remove has run twice in succession: the second found no row and
\* succeeded
C3_Witness ==
    /\ SameRecordTwice
    /\ IsRemove(log[2].record)
    /\ log[1].before # EmptyTable
    /\ log[2].before = EmptyTable
    /\ log[2].after = EmptyTable


(***************************************************************************)
(* C4                                                                      *)
(***************************************************************************)
\* C4: the step the handler takes at an INSERT/MODIFY record without
\* NewImage, or a REMOVE record without OldImage, writes nothing to the
\* sink, does not fail the invocation, and leaves the loop at the next
\* record of the batch
C4_MalformedSkip ==
    [][ \A i \in Invs :
          (InLoop(i) /\ Malformed(Current(i)) /\ inv'[i] # inv[i]) =>
              /\ sink' = sink
              /\ log' = log
              /\ inv'[i] = [inv[i] EXCEPT !.idx = @ + 1]
      ]_vars

\* A batch whose first record lacks its image has been processed to its
\* end, and the record after it was applied
C4_Witness ==
    \E i \in Invs :
        /\ inv[i].pc = "done"
        /\ Len(inv[i].Records) >= 2
        /\ Malformed(inv[i].Records[1])
        /\ ~Malformed(inv[i].Records[2])
        /\ inv[i].applied >= 1
        /\ Len(log) >= 1 /\ log[Len(log)].record = inv[i].Records[Len(inv[i].Records)]

(***************************************************************************)
(* C5                                                                      *)
(***************************************************************************)
\* C5 as stated: when the sink statement of a record fails, the invocation
\* does not fail: the loop goes on (or ends normally) and the handler's
\* result names that record as failed
C5_PerRecordIsolation ==
    \A i \in Invs :
        inv[i].failedAt > 0 =>
            /\ inv[i].pc \in {"loop", "done"}
            /\ inv[i].failedAt \in BatchItemFailures(i)

(***************************************************************************)
(* C6                                                                      *)
(***************************************************************************)
\* C6 as stated: however the first calls of getPool interleave, at most one
\* secrets fetch is in flight and at most one pool is ever constructed
C6_SingleFlight ==
    /\ Cardinality({ i \in Invs : inv[i].pc = "fetching" }) <= 1
    /\ built <= 1

(***************************************************************************)
(* C7                                                                      *)
(***************************************************************************)
\* C7 as stated: once the pool is built, the pool variable is never assigned
\* again and no further secrets fetch is sent
C7_PoolCached ==
    [][ pool # 0 => (pool' = pool /\ fetches' = fetches) ]_vars

(***************************************************************************)
(* C8                                                                      *)
(***************************************************************************)
\* C8: an invocation whose secrets fetch failed has thrown
\* CredentialResolutionError without a pool, has applied no record of its
\* batch (the sink is as the invocation found it), has left the pool
\* unbuilt; and no invocation sends the secrets fetch more than once
C8_CredentialFailure ==
    \A i \in Invs :
        /\ inv[i].fetched <= 1
        /\ inv[i].pc = "fetching" => (inv[i].applied = 0 /\ sink = inv[i].start)
        /\ inv[i].err = "CredentialResolutionError" =>
              /\ inv[i].pc = "failed"
              /\ inv[i].db = 0
              /\ inv[i].applied = 0
              /\ sink = inv[i].start
              /\ pool = 0

\* The fetch failed, the batch was redelivered, and the redelivery sent the
\* fetch again (which failed again)
C8_Witness ==
    \E i \in Invs :
        /\ inv[i].err = "CredentialResolutionError"
        /\ inv[i].attempts = 2
        /\ fetches = 2
        /\ pool = 0

(***************************************************************************)
(* C9                                                                      *)
(***************************************************************************)
\* C9 as stated: when a batch that failed at some record is redelivered and
\* at last processed to its end, the sink is what one failure-free pass
\* over the batch (made at the times of the last pass) would have left
C9_Original ==
    \A i \in Invs :
        (inv[i].pc = "done" /\ inv[i].faults > 0) => sink = inv[i].once

\* C9 as amended: then the sink holds the rows one failure-free pass would
\* have left, with the same id, name, location, capacity and updated_at;
\* only created_at may differ (a row a failed attempt inserted keeps the
\* time of that attempt)
C9_RedeliverySafe ==
    \A i \in Invs :
        (inv[i].pc = "done" /\ inv[i].faults > 0) =>
            /\ Content(sink) = RefApplyAll(Content(inv[i].sink0), inv[i].Records)
            /\ DOMAIN sink = DOMAIN inv[i].once
            /\ \A k \in DOMAIN sink :
                  sink[k] = [inv[i].once[k] EXCEPT !.created_at = sink[k].created_at]

\* A batch failed after a prefix of it was applied, was redelivered and
\* processed to its end
C9_Witness ==
    \E i \in Invs :
        /\ inv[i].pc = "done"
        /\ inv[i].faults > 0
        /\ inv[i].attempts > 1
        /\ inv[i].applied >= 2
        /\ inv[i].start # inv[i].sink0

(***************************************************************************)
(* C10                                                                     *)
(***************************************************************************)
\* What pg sends for the attribute named a of image n
SameNamed(n, a) == PgParam(Attr(n, a))

\* C10 as stated: after an upsert of image n the row keyed n.id exists and
\* its name, location and capacity equal the same-named attributes of n
C10_Original ==
    \A e \in LogEntries :
        IsUpsert(e.record) =>
            LET n == unmarshall(e.record.dynamodb.NewImage)
            IN  /\ DOMAIN e.after = {n.id}
                /\ e.after[n.id].name = SameNamed(n, "name")
                /\ e.after[n.id].location = SameNamed(n, "location")
                /\ e.after[n.id].capacity = SameNamed(n, "capacity")

\* C10 as amended: after an upsert of image n the row keyed n.id exists,
\* its name and location equal n.name and n.location, its capacity equals
\* n.photoUrl (NULL when n has no photoUrl or an empty one), and its
\* updated_at is the time of the statement
C10_UpsertColumns ==
    \A e \in LogEntries :
        IsUpsert(e.record) =>
            LET n == unmarshall(e.record.dynamodb.NewImage)
            IN  /\ DOMAIN e.after = {n.id}
                /\ e.after[n.id].id = n.id
                /\ e.after[n.id].name = n.name
                /\ e.after[n.id].location = n.location
                /\ e.after[n.id].capacity =
                      (IF "photoUrl" \in DOMAIN n /\ n.photoUrl # "" THEN n.photoUrl ELSE Null)
                /\ e.after[n.id].updated_at = e.at

\* An upsert has overwritten an existing row whose name and capacity
\* differed, at a later time
C10_Witness ==
    \E e \in LogEntries :
        /\ IsUpsert(e.record)
        /\ e.before # EmptyTable
        /\ LET n == unmarshall(e.record.dynamodb.NewImage)
           IN  /\ e.before[n.id].name # n.name
               /\ e.before[n.id].capacity # e.after[n.id].capacity
               /\ e.before[n.id].updated_at < e.at


(***************************************************************************)
(* C11                                                                     *)
(***************************************************************************)
\* C11 as stated: under the deployed retry settings no delivered batch is
\* lost: when the trigger is through with a batch (the handler completed,
\* or the trigger gave the batch up), the sink holds the rows that applying
\* the batch's events to the sink of its first delivery gives
C11_NoDataLoss ==
    \A i \in Invs :
        inv[i].pc \in {"done", "discarded"} =>
            Content(sink) = RefApplyAll(Content(inv[i].sink0), inv[i].Records)


(***************************************************************************)
(* C12                                                                     *)
(***************************************************************************)
\* C12: no step changes the created_at of a row that stays in the sink (an
\* upsert for an id that has a row writes name, location, capacity and
\* updated_at only), and a row that enters the sink is created at the time
\* of its statement; so a row keeps the created_at of the upsert that
\* inserted it for as long as no Remove deletes it
C12_CreatedAtOnInsert ==
    [][ \A id \in DOMAIN sink' :
          sink'[id].created_at =
              (IF id \in DOMAIN sink THEN sink[id].created_at ELSE clock')
      ]_vars

\* A row inserted at one time has been upserted, with other values, at a
\* later time and has kept its created_at
C12_Witness ==
    /\ Len(log) = 2
    /\ IsUpsert(log[1].record) /\ IsUpsert(log[2].record)
    /\ log[1].record # log[2].record
    /\ log[1].before = EmptyTable
    /\ DOMAIN log[1].after = DOMAIN log[2].after
    /\ log[2].at > log[1].at
    /\ \A id \in DOMAIN log[2].after :
          /\ log[2].after[id].created_at = log[1].at
          /\ log[2].after[id].updated_at = log[2].at
          /\ log[2].after[id].name # log[1].after[id].name


(***************************************************************************)
(* C13                                                                     *)
(***************************************************************************)
\* C13: the step at which a statement of invocation i raises leaves the
\* sink as it is (the writes of the records before stay), leaves the loop
\* where it stands and fails the invocation with the error rethrown; a
\* failed invocation writes nothing more; and the handler completes
\* normally only from the loop, past the last record, with no error
C13_AbortAtFirstFailure ==
    [][ \A i \in Invs :
          /\ (inv[i].failedAt = 0 /\ inv'[i].failedAt > 0) =>
                /\ sink' = sink
                /\ inv'[i].pc = "failed"
                /\ inv'[i].err # ""
                /\ inv'[i].failedAt = inv[i].idx
                /\ inv'[i].idx = inv[i].idx
                /\ inv'[i].applied = inv[i].applied
          /\ inv[i].pc = "failed" => sink' = sink
          /\ (inv[i].pc # "done" /\ inv'[i].pc = "done") =>
                /\ inv[i].pc = "loop"
                /\ inv[i].idx = Len(inv[i].Records) + 1
                /\ inv[i].err = "" /\ inv[i].failedAt = 0
                /\ inv'[i].err = "" /\ inv'[i].failedAt = 0
      ]_vars

\* The statement of the second of three records failed after the first was
\* written: the write stays, the third record is not reached
C13_Witness ==
    \E i \in Invs :
        /\ inv[i].pc = "failed"
        /\ inv[i].err = "TransientSinkError"
        /\ inv[i].failedAt = 2
        /\ Len(inv[i].Records) = 3
        /\ ~Malformed(inv[i].Records[3])
        /\ inv[i].applied = 1
        /\ sink # inv[i].start

=============================================================================
